---- MODULE Spec2Model ----
(***************************************************************************)
(* Model of the video generation queue (VideoGenerationQueue, the global   *)
(* videoQueue, generateAndPollVideo) and of the host component that calls  *)
(* it (App: handleGenerate, handleDeleteJob), src/App.tsx.                  *)
(*                                                                         *)
(* The JavaScript event loop runs one task at a time, so every action      *)
(* below is one run-to-suspension piece of code: from an event (a click, a *)
(* timer, the settlement of an awaited promise) to the next await.         *)
(*                                                                         *)
(* Queue items are numbered 1, 2, ... in the order add() creates them.     *)
(* Host jobs carry the number nextJobId had at the click (0, 1, ...).      *)
(*                                                                         *)
(* Spec follows the queue and the host over several requests and sees each *)
(* execute() from outside: once started it returns or throws. SpecHost     *)
(* adds the clicks on Generate with a field of the form missing,           *)
(* SpecStatus the queue panel, SpecProgress the messages the queue gives   *)
(* to the progress callbacks. SpecExec follows executeGeneration of one    *)
(* request from await to await up to the downloads (SpecExecFair: with     *)
(* every call settling and every timer firing), SpecDownload follows the   *)
(* downloads of a request that met no error before them.                   *)
(***************************************************************************)
EXTENDS Integers, Sequences, FiniteSets, TLC

\* Bounds of the model: how many times the user clicks Generate, and how many
\* times a trash button.
MaxJobs == 6
MaxDeletes == 2

\* new VideoGenerationQueue(4): the concurrency limit of the global queue.
maxConcurrent == 4

\* setTimeout(() => this.processQueue(), 3000): the cooldown, in ms.
CooldownMs == 3000

VARIABLES
    jobs,        \* App state `jobs`: the host's list of GenerationJob
    nextJobId,   \* App ref `nextJobId`
    error,       \* App state `error`: the banner above the form, "null" when none
    status,      \* QueueStatus state `status`: what the queue panel shows
    queue,       \* VideoGenerationQueue.queue: pending items, head first
    running,     \* VideoGenerationQueue.running: Set of item ids
    timers,      \* pending setTimeout callbacks (each one a processQueue), by delay
    ids,         \* ids[i]: the id string add() gave item i
    exec,        \* exec[i]: the state of item i's execute() promise
    handle,      \* handle[i]: the state of the promise add() returned for item i
    peakPending, \* history: the most items the pending queue has held when an add()
                 \* returned
    \* executeGeneration of item 1, step by step (specification SpecExec)
    xpc,           \* where executeGeneration stands: the await it is suspended at
    attempt,       \* retryWithBackoff: the loop variable `attempt` of the call in progress
    lastError,     \* retryWithBackoff: the local `lastError` of the call in progress
    submitCalls,   \* history: the number of ai.models.generateVideos calls made
    submitFailures, \* history: the number of them that failed
    submitWaits,   \* history: the delays slept between them, in order
    operation,     \* the local `operation`
    pollAttempts,  \* the local `pollAttempts`
    messageIndex,  \* the local `messageIndex`
    pollCalls,     \* history: whether ai.operations.getVideosOperation was ever called
    xresult,       \* what execute() threw (the message of the Error), "" so far
    downloads,     \* downloads[k]: where the k-th promise of downloadPromises stands
    videoUrls,     \* what execute() returned: the local `videoUrls`, <<>> so far
    \* the progress callback, as far as the queue calls it (specification SpecProgress)
    sink           \* sink[i]: the messages add() and processQueue have given to the
                   \* onProgress of item i, in order

execVars == <<xpc, attempt, lastError, submitCalls, submitFailures, submitWaits, operation, pollAttempts,
              messageIndex, pollCalls, xresult, downloads, videoUrls>>

xvars == <<execVars, sink>>

vars == <<jobs, nextJobId, error, status, queue, running, timers, ids, exec, handle, peakPending, xvars>>

schedVars == <<queue, running, timers, ids, exec, handle>>

Items == 1..Len(ids)

\* The host job a queue item was created for: handleGenerate's closure jobId.
JobIdOf(i) == i - 1

\* Whether the host's list holds a job with this id.
Listed(jobId) == \E k \in 1..Len(jobs) : jobs[k].id = jobId

\* Bound of the model: how many add() calls are given an id that an earlier
\* add() has handed out.
MaxRepeatedIds == 1

\* The number of add() calls so far that were given an id handed out before.
RepeatedIds(idsBefore) ==
    Len(idsBefore) - Cardinality({idsBefore[k] : k \in 1..Len(idsBefore)})

\* `video_${Date.now()}_${Math.random().toString(36).substr(2, 9)}`: the ids
\* add() can give its item after the ids idsBefore. The string is made of the
\* clock reading and of digits of the random number and of nothing else: it is a
\* string not handed out before, or, when the clock reads what it read at an
\* earlier add() and the random digits are the same, the id of that earlier item.
\* Ids are only ever compared with each other, so an id is written as the number
\* of the first item that was given it.
NewIds(idsBefore) ==
    {Len(idsBefore) + 1}
    \cup (IF RepeatedIds(idsBefore) < MaxRepeatedIds
          THEN {idsBefore[k] : k \in 1..Len(idsBefore)}
          ELSE {})

\* `operation` before generateVideos has returned one.
NoOperation == [name |-> "", done |-> FALSE, videos |-> <<>>]

\* `lastError` before retryWithBackoff has caught anything.
NoError == [thrown |-> FALSE, status |-> 0, code |-> 0, text |-> ""]

Init ==
    /\ jobs = <<>>
    /\ nextJobId = 0
    /\ error = "null"
    /\ status = [queueLength |-> 0, runningCount |-> 0, maxConcurrent |-> 4]
    /\ queue = <<>>
    /\ running = {}
    /\ timers = <<>>
    /\ ids = <<>>
    /\ exec = <<>>
    /\ handle = <<>>
    /\ peakPending = 0
    /\ xpc = "idle"
    /\ attempt = 0
    /\ lastError = NoError
    /\ submitCalls = 0
    /\ submitFailures = 0
    /\ submitWaits = <<>>
    /\ operation = NoOperation
    /\ pollAttempts = 0
    /\ messageIndex = 0
    /\ pollCalls = FALSE
    /\ xresult = ""
    /\ downloads = <<>>
    /\ videoUrls = <<>>
    /\ sink = <<>>

----------------------------------------------------------------------------
(* VideoGenerationQueue.processQueue, up to its await *)

\* The negation of processQueue's early return.
CanStartInclusive(q, r) == Cardinality(r) <= maxConcurrent /\ Len(q) # 0
CanStartStrict(q, r) == Cardinality(r) < maxConcurrent - 1 /\ Len(q) # 0
CanStart(q, r) == Cardinality(r) < maxConcurrent /\ Len(q) # 0

\* this.queue.shift(): the item taken, and what is left of the queue.
ShiftFromTail(q) == [item |-> q[Len(q)], rest |-> SubSeq(q, 1, Len(q) - 1)]
Shift(q) == [item |-> Head(q), rest |-> Tail(q)]

\* One invocation of processQueue on pending queue q, running set r and execute()
\* states ex, with the ids idsNow: it starts at most one item and then suspends
\* at `await item.execute()`.
ProcessQueueDraining(q, r, ex, idsNow) ==
    LET free == maxConcurrent - Cardinality(r)
        n == IF free < 0 THEN 0 ELSE IF Len(q) < free THEN Len(q) ELSE free
    IN  /\ queue' = SubSeq(q, n + 1, Len(q))
        /\ running' = r \cup {idsNow[q[k]] : k \in 1..n}
        /\ exec' = [i \in 1..Len(ex) |->
                        IF \E k \in 1..n : q[k] = i THEN "executing" ELSE ex[i]]
ProcessQueue(q, r, ex, idsNow) ==
    IF CanStart(q, r)
    THEN LET shifted == Shift(q) IN
         /\ queue' = shifted.rest
         /\ running' = r \cup {idsNow[shifted.item]}
         /\ exec' = [ex EXCEPT ![shifted.item] = "executing"]
    ELSE /\ queue' = q
         /\ running' = r
         /\ exec' = ex

----------------------------------------------------------------------------
(* VideoGenerationQueue.add, called by generateAndPollVideo from handleGenerate *)

\* add(), its id being the string `id`: a new item with that id and an unsettled
\* promise is pushed, and processQueue is invoked once.
AddItem(id) ==
    LET i == Len(ids) + 1
        idsNow == Append(ids, id)
    IN  /\ ids' = idsNow
        /\ handle' = Append(handle, "pending")
        /\ ProcessQueue(Append(queue, i), running, Append(exec, "notStarted"), idsNow)
        /\ peakPending' = IF Len(queue') > peakPending THEN Len(queue') ELSE peakPending
        /\ UNCHANGED timers

\* add(), with any id the clock and the random source can make.
Add == \E id \in NewIds(ids) : AddItem(id)

\* handleGenerate with an API key and a prompt, up to the call of add(): a
\* loading job is listed.
ListJob ==
    /\ nextJobId < MaxJobs
    /\ nextJobId' = nextJobId + 1
    /\ jobs' = Append(jobs, [id |-> nextJobId, status |-> "loading"])
    /\ error' = "null"
    /\ status' = status

\* handleGenerate with an API key and a prompt: a loading job is listed and the
\* request is handed to the queue.
HandleGenerate ==
    /\ ListJob
    /\ Add

\* What the user may have typed into the API key field and the prompt field:
\* nothing, white space only, or a text.
ApiKeys == {"", " ", "key"}

Prompts == {"", " ", "a prompt"}

\* String.prototype.trim on these strings.
Trim(str) == IF str = " " THEN "" ELSE str

\* The two early returns of handleGenerate: the message given to setError, or
\* "null" when neither field is missing.
MissingFieldIgnoringPrompt(apiKey, prompt) ==
    IF Trim(apiKey) = "" THEN "enterApiKey" ELSE "null"
MissingField(apiKey, prompt) ==
    IF Trim(apiKey) = "" THEN "enterApiKey"
    ELSE IF Trim(prompt) = "" THEN "enterPrompt"
    ELSE "null"

\* generateAndPollVideo throws before it reaches videoQueue.add.
KeyNotSet(apiKey) == apiKey = ""

\* A click on Generate with these field contents. With a field missing the
\* banner is set and nothing else happens. A key that generateAndPollVideo
\* refuses makes its promise reject before add() is reached, and the catch
\* branch of handleGenerate marks the job just listed as failed.
Click(apiKey, prompt) ==
    IF MissingField(apiKey, prompt) # "null"
    THEN /\ error' = MissingField(apiKey, prompt)
         /\ UNCHANGED <<jobs, nextJobId, status, queue, running, timers, ids, exec, handle, peakPending>>
    ELSE IF KeyNotSet(apiKey)
    THEN /\ nextJobId < MaxJobs
         /\ nextJobId' = nextJobId + 1
         /\ jobs' = Append(jobs, [id |-> nextJobId, status |-> "error"])
         /\ error' = "null"
         /\ UNCHANGED <<status, queue, running, timers, ids, exec, handle, peakPending>>
    ELSE HandleGenerate

----------------------------------------------------------------------------
(* the rest of processQueue: after `await item.execute()` *)

\* item.resolve(result) in the try block, item.reject(error) in the catch block.
SettledAsAlwaysResolved(e) == "resolved"
SettledAs(e) == IF e = "returned" THEN "resolved" ELSE "rejected"

\* The finally block, for item i whose execute() states are now ex: the slot is
\* freed and a processQueue is scheduled after the cooldown.
AfterSettleImmediate(i, ex) ==
    /\ ProcessQueue(queue, running \ {ids[i]}, ex, ids)
    /\ timers' = timers
AfterSettleRequeue(i, ex) ==
    /\ running' = running \ {ids[i]}
    /\ timers' = Append(timers, CooldownMs)
    /\ queue' = IF ex[i] = "threw" THEN Append(queue, i) ELSE queue
    /\ exec' = IF ex[i] = "threw" THEN [ex EXCEPT ![i] = "notStarted"] ELSE ex
AfterSettleLeaksFailed(i, ex) ==
    /\ running' = IF ex[i] = "threw" THEN running ELSE running \ {ids[i]}
    /\ timers' = Append(timers, CooldownMs)
    /\ queue' = queue
    /\ exec' = ex
AfterSettle(i, ex) ==
    /\ running' = running \ {ids[i]}
    /\ timers' = Append(timers, CooldownMs)
    /\ queue' = queue
    /\ exec' = ex

----------------------------------------------------------------------------
(* completion of an item, and the cooldown timer *)

\* prevJobs.map(job => job.id === jobId ? {...job, status} : job)
SetStatusOrInsert(js, jobId, st) ==
    IF \E k \in 1..Len(js) : js[k].id = jobId
    THEN [k \in 1..Len(js) |-> IF js[k].id = jobId THEN [js[k] EXCEPT !.status = st] ELSE js[k]]
    ELSE Append(js, [id |-> jobId, status |-> st])
SetStatus(js, jobId, st) ==
    [k \in 1..Len(js) |-> IF js[k].id = jobId THEN [js[k] EXCEPT !.status = st] ELSE js[k]]

\* handleGenerate after `await generateAndPollVideo(...)`: the try branch on a
\* resolved promise, the catch branch on a rejected one.
HostStatus(h) == IF h = "resolved" THEN "success" ELSE "error"

\* execute() of item i settles (outcome "returned": it returns its list of video
\* URLs; "threw": it throws). The promise reactions run before any other task:
\* processQueue resumes after its await (try or catch, then finally), and then
\* handleGenerate resumes after its own await.
Complete(i, outcome) ==
    /\ exec[i] = "executing"
    /\ handle' = [handle EXCEPT ![i] = SettledAs(outcome)]
    /\ AfterSettle(i, [exec EXCEPT ![i] = outcome])
    /\ jobs' = SetStatus(jobs, JobIdOf(i), HostStatus(handle'[i]))
    /\ UNCHANGED <<nextJobId, error, status, ids, peakPending>>

\* A cooldown timer fires: processQueue is invoked.
TimerFireIdle ==
    /\ timers # <<>>
    /\ timers' = Tail(timers)
    /\ UNCHANGED <<queue, running, exec>>
    /\ UNCHANGED <<jobs, nextJobId, error, status, ids, handle, peakPending>>
TimerFire ==
    /\ timers # <<>>
    /\ timers' = Tail(timers)
    /\ ProcessQueue(queue, running, exec, ids)
    /\ UNCHANGED <<jobs, nextJobId, error, status, ids, handle, peakPending>>

----------------------------------------------------------------------------
(* handleDeleteJob *)

RECURSIVE Without(_, _)
\* prev.filter(job => job.id !== jobId)
Without(js, jobId) ==
    IF js = <<>> THEN <<>>
    ELSE IF Head(js).id = jobId THEN Without(Tail(js), jobId)
         ELSE <<Head(js)>> \o Without(Tail(js), jobId)

\* handleDeleteJob(jobId): the trash button of a listed job.
HandleDeleteJob(jobId) ==
    /\ nextJobId - Len(jobs) < MaxDeletes
    /\ Listed(jobId)
    /\ jobs' = Without(jobs, jobId)
    /\ UNCHANGED <<nextJobId, error, status, queue, running, timers, ids, exec, handle, peakPending>>

----------------------------------------------------------------------------
(* getQueueStatus, and the QueueStatus panel that calls it every second *)

\* getQueueStatus() on pending queue q and running set r.
GetQueueStatusCountingRunning(q, r) ==
    [queueLength |-> Len(q) + Cardinality(r), runningCount |-> Cardinality(r),
     maxConcurrent |-> maxConcurrent]
GetQueueStatus(q, r) ==
    [queueLength |-> Len(q), runningCount |-> Cardinality(r), maxConcurrent |-> maxConcurrent]

\* The interval of the panel fires: setStatus(getQueueStatus()).
StatusTick ==
    /\ status' = GetQueueStatus(queue, running)
    /\ UNCHANGED <<jobs, nextJobId, error, queue, running, timers, ids, exec, handle, peakPending>>

----------------------------------------------------------------------------
(* executeGeneration: what the remote calls return and throw *)

\* Bound of the model: how many videos a finished operation lists at most.
MaxVideos == 3

\* retryWithBackoff(..., 8, 5000) around ai.models.generateVideos.
SubmitMaxRetries == 8
SubmitBaseDelay == 5000

\* retryWithBackoff(..., 5, 3000) around ai.operations.getVideosOperation.
PollMaxRetries == 5

\* const maxPollAttempts = 100
maxPollAttempts == 100

\* progressMessages.length
NumProgressMessagesPerPoll == maxPollAttempts + 1
NumProgressMessages == 5

\* What a failed remote call throws: `status` (0: the error has none), `code`
\* (0: none) and `message`: "" (none), "msg" (a text without 'timeout'),
\* "msg timeout" (a text with it). An error with a `code` of 503 and no `status`
\* is one more shape the code tests for.
Statuses == {0, 400, 401, 403, 429, 500, 503}

Texts == {"", "msg", "msg timeout"}

RemoteErrors ==
    {[thrown |-> TRUE, status |-> s, code |-> 0, text |-> t] : s \in Statuses, t \in Texts}
    \cup {[thrown |-> TRUE, status |-> 0, code |-> 503, text |-> t] : t \in Texts}

\* new Error(text), thrown by executeGeneration itself or by the file reader.
LocalError(t) == [thrown |-> TRUE, status |-> 0, code |-> 0, text |-> t]

\* The video entries of a finished operation: with a download uri or without.
VideoLists ==
    UNION {[1..n -> {"uri", "nouri"}] : n \in 0..MaxVideos}

\* What generateVideos and getVideosOperation return: an operation still in
\* progress, or a finished one with the videos of its response.
Operations ==
    {[name |-> "op", done |-> FALSE, videos |-> <<>>]}
    \cup {[name |-> "op", done |-> TRUE, videos |-> v] : v \in VideoLists}

----------------------------------------------------------------------------
(* retryWithBackoff *)

RECURSIVE Pow(_, _)
\* b to the n-th power.
Pow(b, n) == IF n = 0 THEN 1 ELSE b * Pow(b, n - 1)

\* error.status === 400 || error.status === 401 || error.status === 403
NonRetryableWithout403(e) == e.status \in {400, 401}
NonRetryable(e) == e.status \in {400, 401, 403}

\* baseDelay * Math.pow(1.5, attempt), as the fraction <<numerator, denominator>>
\* (1.5 = 3/2; every value is a dyadic fraction, exact in a double).
BackoffDelayFlat(baseDelay, att) == <<baseDelay, 1>>
BackoffDelay(baseDelay, att) == <<baseDelay * Pow(3, att), Pow(2, att)>>

\* The catch block of retryWithBackoff on error e in iteration att: the error is
\* thrown on, or the loop sleeps and goes round again.
RetryDecisionNoRetry(e, att, maxRetries) == "throw"
RetryDecisionOneFewer(e, att, maxRetries) ==
    IF e.status \in {400, 401, 403} \/ att >= maxRetries - 1 THEN "throw" ELSE "sleep"
RetryDecision(e, att, maxRetries) ==
    IF NonRetryable(e) THEN "throw"
    ELSE IF att = maxRetries THEN "throw"
    ELSE "sleep"

----------------------------------------------------------------------------
(* executeGeneration of item 1, from await to await *)

\* error.message?.includes('timeout')
MentionsTimeout(t) == t = "msg timeout"

\* The catch block of executeGeneration: the message of the Error it throws.
MapError(e) ==
    IF e.status = 503 \/ e.code = 503 THEN "unavailable"
    ELSE IF e.status = 429 THEN "rateLimited"
    ELSE IF e.status = 401 THEN "invalidApiKey"
    ELSE IF e.status = 403 THEN "accessDenied"
    ELSE IF MentionsTimeout(e.text) THEN "requestTimedOut"
    ELSE IF e.text = "" THEN "failedToGenerate"
    ELSE e.text

\* executeGeneration throws on error e: execute() of item 1 throws, and the
\* queue and the host react.
Fail(e) ==
    /\ xpc' = "failed"
    /\ xresult' = MapError(e)
    /\ Complete(1, "threw")
    /\ sink' = sink

\* The host's and the scheduler's variables are left alone.
Suspended == UNCHANGED <<jobs, nextJobId, error, status, queue, running, timers, ids, exec, handle, peakPending, sink>>

\* The downloads are as they were and execute() has not returned.
NoDownload == UNCHANGED <<downloads, videoUrls>>

\* generatedVideos.map(async ...) up to the first await of each call: a video
\* without a download link yields null at once, for every other one
\* retryWithBackoff is entered and fetch is called.
StartDownloads(videos) ==
    [k \in 1..Len(videos) |->
        IF videos[k] = "uri" THEN [state |-> "fetch", attempt |-> 0]
        ELSE [state |-> "null", attempt |-> 0]]

\* Promise.all(downloadPromises) is fulfilled when every promise is.
AllFulfilled(d) == \A k \in 1..Len(d) : d[k].state \in {"url", "null"}

\* .filter(url => url !== null): the object URLs, in the order of the videos. The
\* URL made for the k-th video is written k.
Urls(d) == SelectSeq([k \in 1..Len(d) |-> k], LAMBDA k : d[k].state = "url")

\* executeGeneration at `await Promise.all(downloadPromises)` with the downloads
\* at d, none of them rejected: it stays suspended, or goes on to its end.
AwaitDownloads(d) ==
    IF ~AllFulfilled(d)
    THEN xpc' = "download" /\ xresult' = xresult /\ videoUrls' = videoUrls /\ Suspended
    ELSE IF Len(Urls(d)) = 0
    THEN Fail(LocalError("all video downloads failed")) /\ videoUrls' = videoUrls
    ELSE /\ xpc' = "done"
         /\ xresult' = xresult
         /\ videoUrls' = Urls(d)
         /\ Complete(1, "returned")
         /\ sink' = sink

\* From the while condition of the polling loop on, with operation op after pa
\* polls: the loop sleeps again, or it is left, the result is looked at and the
\* downloads are started.
ContinueAfterPollUncapped(op, pa) ==
    IF ~op.done
    THEN xpc' = "pollSleep" /\ xresult' = xresult /\ Suspended /\ NoDownload
    ELSE IF Len(op.videos) = 0
    THEN Fail(LocalError("generation failed or returned no videos")) /\ NoDownload
    ELSE downloads' = StartDownloads(op.videos) /\ AwaitDownloads(downloads')
ContinueAfterPollNoEmptyCheck(op, pa) ==
    IF ~op.done /\ pa < maxPollAttempts
    THEN xpc' = "pollSleep" /\ xresult' = xresult /\ Suspended /\ NoDownload
    ELSE IF pa >= maxPollAttempts
    THEN Fail(LocalError("generation timed out after 25 minutes")) /\ NoDownload
    ELSE downloads' = StartDownloads(op.videos) /\ AwaitDownloads(downloads')
ContinueAfterPoll(op, pa) ==
    IF ~op.done /\ pa < maxPollAttempts
    THEN xpc' = "pollSleep" /\ xresult' = xresult /\ Suspended /\ NoDownload
    ELSE IF pa >= maxPollAttempts
    THEN Fail(LocalError("generation timed out after 25 minutes")) /\ NoDownload
    ELSE IF Len(op.videos) = 0
    THEN Fail(LocalError("generation failed or returned no videos")) /\ NoDownload
    ELSE downloads' = StartDownloads(op.videos) /\ AwaitDownloads(downloads')

\* retryWithBackoff is entered and calls generateVideos for the first time.
SubmitFirst ==
    /\ xpc' = "submit"
    /\ attempt' = 0
    /\ lastError' = NoError
    /\ submitCalls' = submitCalls + 1

\* The first click on Generate: item 1 is started inside add(), and
\* executeGeneration runs to its first await: the file reader with a reference
\* image, generateVideos without.
XStart(hasImage) ==
    /\ NoDownload
    /\ Len(ids) = 0
    /\ HandleGenerate
    /\ sink' = sink
    /\ IF hasImage
       THEN xpc' = "readImage" /\ UNCHANGED <<attempt, lastError, submitCalls>>
       ELSE SubmitFirst
    /\ UNCHANGED <<submitFailures, submitWaits, operation, pollAttempts, messageIndex,
                   pollCalls, xresult>>

\* fileToBase64 resolves.
XImageRead ==
    /\ NoDownload
    /\ xpc = "readImage"
    /\ SubmitFirst
    /\ Suspended
    /\ UNCHANGED <<submitFailures, submitWaits, operation, pollAttempts, messageIndex,
                   pollCalls, xresult>>

\* fileToBase64 rejects with the reader's error event, which has no message.
XImageFails ==
    /\ NoDownload
    /\ xpc = "readImage"
    /\ Fail(LocalError(""))
    /\ UNCHANGED <<attempt, lastError, submitCalls, submitFailures, submitWaits, operation,
                   pollAttempts, messageIndex, pollCalls>>

\* generateVideos returns operation op: the first stage message is sent and the
\* polling loop is reached.
XSubmitReturns(op) ==
    /\ xpc = "submit"
    /\ operation' = op
    /\ messageIndex' = 1
    /\ lastError' = NoError
    /\ ContinueAfterPoll(op, pollAttempts)
    /\ UNCHANGED <<attempt, submitCalls, submitFailures, submitWaits, pollAttempts, pollCalls>>

\* generateVideos throws e: the catch block of retryWithBackoff.
XSubmitFailsThenPolls(e) ==
    /\ NoDownload
    /\ xpc = "submit"
    /\ lastError' = e
    /\ submitFailures' = submitFailures + 1
    /\ xpc' = "pollSleep"
    /\ xresult' = xresult
    /\ Suspended
    /\ UNCHANGED <<attempt, submitCalls, submitWaits, operation, pollAttempts, messageIndex, pollCalls>>
XSubmitFails(e) ==
    /\ NoDownload
    /\ xpc = "submit"
    /\ lastError' = e
    /\ submitFailures' = submitFailures + 1
    /\ IF RetryDecision(e, attempt, SubmitMaxRetries) = "throw"
       THEN Fail(e) /\ UNCHANGED submitWaits
       ELSE /\ xpc' = "submitWait"
            /\ submitWaits' = Append(submitWaits, BackoffDelay(SubmitBaseDelay, attempt))
            /\ xresult' = xresult
            /\ Suspended
    /\ UNCHANGED <<attempt, submitCalls, operation, pollAttempts, messageIndex, pollCalls>>

\* The backoff sleep ends: the next iteration calls generateVideos again.
XSubmitWake ==
    /\ NoDownload
    /\ xpc = "submitWait"
    /\ xpc' = "submit"
    /\ attempt' = attempt + 1
    /\ submitCalls' = submitCalls + 1
    /\ Suspended
    /\ UNCHANGED <<lastError, submitFailures, submitWaits, operation, pollAttempts,
                   messageIndex, pollCalls, xresult>>

\* sleep(15000) ends: the poll is counted, the next stage message is sent if one
\* is left, and retryWithBackoff calls getVideosOperation for the first time.
XPollWake ==
    /\ NoDownload
    /\ xpc = "pollSleep"
    /\ pollAttempts' = pollAttempts + 1
    /\ messageIndex' = IF messageIndex < NumProgressMessages THEN messageIndex + 1
                       ELSE messageIndex
    /\ xpc' = "poll"
    /\ attempt' = 0
    /\ lastError' = NoError
    /\ pollCalls' = TRUE
    /\ Suspended
    /\ UNCHANGED <<submitCalls, submitFailures, submitWaits, operation, xresult>>

\* getVideosOperation returns operation op.
XPollReturns(op) ==
    /\ xpc = "poll"
    /\ operation' = op
    /\ lastError' = NoError
    /\ ContinueAfterPoll(op, pollAttempts)
    /\ UNCHANGED <<attempt, submitCalls, submitFailures, submitWaits,
                   pollAttempts, messageIndex, pollCalls>>

\* getVideosOperation throws e: retryWithBackoff sleeps and goes round again, or
\* throws e on to the catch block of the polling loop, which sleeps on a 503 and
\* throws every other error on.
XPollFails(e) ==
    /\ NoDownload
    /\ xpc = "poll"
    /\ lastError' = e
    /\ IF RetryDecision(e, attempt, PollMaxRetries) = "sleep"
       THEN xpc' = "pollWait" /\ xresult' = xresult /\ Suspended
       ELSE IF e.status = 503 \/ e.code = 503
       THEN xpc' = "pollBackoff" /\ xresult' = xresult /\ Suspended
       ELSE Fail(e)
    /\ UNCHANGED <<attempt, submitCalls, submitFailures, submitWaits, operation,
                   pollAttempts, messageIndex, pollCalls>>

\* The backoff sleep of retryWithBackoff ends: getVideosOperation is called again.
XPollRetryWake ==
    /\ NoDownload
    /\ xpc = "pollWait"
    /\ xpc' = "poll"
    /\ attempt' = attempt + 1
    /\ Suspended
    /\ UNCHANGED <<lastError, submitCalls, submitFailures, submitWaits, operation,
                   pollAttempts, messageIndex, pollCalls, xresult>>

\* The sleep after a 503 in the polling loop ends: back to the while condition.
XPollBackoffWake ==
    /\ xpc = "pollBackoff"
    /\ ContinueAfterPoll(operation, pollAttempts)
    /\ UNCHANGED <<attempt, lastError, submitCalls, submitFailures, submitWaits, operation,
                   pollAttempts, messageIndex, pollCalls>>

----------------------------------------------------------------------------
(* executeGeneration: the downloads, each of them a promise of its own *)

\* retryWithBackoff(..., 5, 2000) around fetch.
DownloadMaxRetries == 5

\* What a failed download throws: the TypeError of a rejected fetch, or the Error
\* made for a response that is not ok. Neither has a status or a code.
DownloadErrors == {LocalError(t) : t \in Texts \ {""}}

\* Nothing but the downloads moves: executeGeneration is not resumed.
OnlyDownloads ==
    /\ Suspended
    /\ UNCHANGED <<xpc, xresult, videoUrls>>

\* The k-th download throws e. Promise.all rejects with the first rejection and
\* executeGeneration throws on from its catch block; a later rejection changes
\* nothing.
DownloadThrows(k, e) ==
    /\ downloads' = [downloads EXCEPT ![k] = [state |-> "threw", attempt |-> 0]]
    /\ IF xpc = "download"
       THEN Fail(e) /\ videoUrls' = videoUrls
       ELSE OnlyDownloads

\* Everything of executeGeneration before the downloads is left alone.
DownloadFrame ==
    UNCHANGED <<attempt, lastError, submitCalls, submitFailures, submitWaits, operation,
                pollAttempts, messageIndex, pollCalls>>

\* fetch of the k-th video resolves with an ok response: retryWithBackoff
\* returns it and response.blob() is awaited.
XFetchReturns(k) ==
    /\ k \in 1..Len(downloads)
    /\ downloads[k].state = "fetch"
    /\ downloads' = [downloads EXCEPT ![k] = [state |-> "blob", attempt |-> 0]]
    /\ OnlyDownloads
    /\ DownloadFrame

\* fetch of the k-th video rejects, or its response is not ok, with error e:
\* the catch block of retryWithBackoff.
XFetchFails(k, e) ==
    /\ k \in 1..Len(downloads)
    /\ downloads[k].state = "fetch"
    /\ IF RetryDecision(e, downloads[k].attempt, DownloadMaxRetries) = "sleep"
       THEN /\ downloads' = [downloads EXCEPT ![k].state = "wait"]
            /\ OnlyDownloads
       ELSE DownloadThrows(k, e)
    /\ DownloadFrame

\* The backoff sleep of the k-th download ends: fetch is called again.
XFetchWake(k) ==
    /\ k \in 1..Len(downloads)
    /\ downloads[k].state = "wait"
    /\ downloads' = [downloads EXCEPT ![k] = [state |-> "fetch", attempt |-> @.attempt + 1]]
    /\ OnlyDownloads
    /\ DownloadFrame

\* response.blob() of the k-th video resolves and its object URL is made. When
\* this was the last promise, Promise.all is fulfilled and executeGeneration
\* goes on.
XBlobReturns(k) ==
    /\ k \in 1..Len(downloads)
    /\ downloads[k].state = "blob"
    /\ downloads' = [downloads EXCEPT ![k].state = "url"]
    /\ IF xpc = "download" THEN AwaitDownloads(downloads') ELSE OnlyDownloads
    /\ DownloadFrame

\* response.blob() of the k-th video rejects with e.
XBlobFails(k, e) ==
    /\ k \in 1..Len(downloads)
    /\ downloads[k].state = "blob"
    /\ DownloadThrows(k, e)
    /\ DownloadFrame

----------------------------------------------------------------------------

\* The scheduler and the host, with execute() seen from outside: a started item
\* returns or throws at some later time.
Next ==
    \/ HandleGenerate /\ UNCHANGED xvars
    \/ \E i \in Items : \E outcome \in {"returned", "threw"} : Complete(i, outcome) /\ UNCHANGED xvars
    \/ TimerFire /\ UNCHANGED xvars
    \/ \E jobId \in 0..(MaxJobs - 1) : HandleDeleteJob(jobId) /\ UNCHANGED xvars

Spec == Init /\ [][Next]_vars

\* One request, with executeGeneration followed from await to await.
NextExec ==
    \/ \E hasImage \in BOOLEAN : XStart(hasImage)
    \/ XImageRead
    \/ XImageFails
    \/ \E op \in Operations : XSubmitReturns(op)
    \/ \E e \in RemoteErrors : XSubmitFails(e)
    \/ XSubmitWake
    \/ XPollWake
    \/ \E op \in Operations : XPollReturns(op)
    \/ \E e \in RemoteErrors : XPollFails(e)
    \/ XPollRetryWake
    \/ XPollBackoffWake

SpecExec == Init /\ [][NextExec]_vars

\* The scheduler and the host, with the Generate button clicked whatever the
\* form holds.
NextHost ==
    \/ \E apiKey \in ApiKeys : \E prompt \in Prompts : Click(apiKey, prompt) /\ UNCHANGED xvars
    \/ \E i \in Items : \E outcome \in {"returned", "threw"} : Complete(i, outcome) /\ UNCHANGED xvars
    \/ TimerFire /\ UNCHANGED xvars

SpecHost == Init /\ [][NextHost]_vars

\* The scheduler and the host, with the queue panel on the screen.
NextStatus ==
    \/ HandleGenerate /\ UNCHANGED xvars
    \/ \E i \in Items : \E outcome \in {"returned", "threw"} : Complete(i, outcome) /\ UNCHANGED xvars
    \/ TimerFire /\ UNCHANGED xvars
    \/ StatusTick /\ UNCHANGED xvars

SpecStatus == Init /\ [][NextStatus]_vars

\* execute() of item i settles, one way or the other.
Finish(i) == \E outcome \in {"returned", "threw"} : Complete(i, outcome) /\ UNCHANGED xvars

\* The scheduler with every pending event taken to happen at some time: a timer
\* that was set fires, and an executor that was started returns or throws (its
\* remote calls settle and its loops are bounded). Nobody has to click.
NextSched ==
    \/ HandleGenerate /\ UNCHANGED xvars
    \/ \E i \in Items : Finish(i)
    \/ TimerFire /\ UNCHANGED xvars

SpecSchedFair ==
    /\ Init /\ [][NextSched]_vars
    /\ WF_vars(TimerFire /\ UNCHANGED xvars)
    /\ \A i \in 1..MaxJobs : WF_vars(i \in Items /\ Finish(i))

\* `Added to queue. Position: ${queue.length}. Running: ${running.size}/${maxConcurrent}`
\* with pending queue q (the new item pushed) and running set r.
QueuedMessagePositionBeforePush(q, r) ==
    [kind |-> "queued", position |-> Len(q) - 1, slots |-> Cardinality(r), of |-> maxConcurrent]
QueuedMessage(q, r) ==
    [kind |-> "queued", position |-> Len(q), slots |-> Cardinality(r), of |-> maxConcurrent]

\* `Starting generation... (${running.size}/${maxConcurrent} slots used)` with
\* running set r (the id of the item added).
StartingMessageBeforeAdd(r) ==
    [kind |-> "starting", position |-> 0, slots |-> Cardinality(r) - 1, of |-> maxConcurrent]
StartingMessage(r) ==
    [kind |-> "starting", position |-> 0, slots |-> Cardinality(r), of |-> maxConcurrent]

\* The sinks after one invocation of processQueue on pending queue q and
\* running set r, from sinks sk: the item it starts, if any, is given the
\* starting message.
SinkAfterProcessQueueAlways(sk, q, r, idsNow) ==
    IF Len(q) # 0
    THEN [sk EXCEPT ![Head(q)] = Append(@, StartingMessage(r \cup {idsNow[Head(q)]}))]
    ELSE sk
SinkAfterProcessQueue(sk, q, r, idsNow) ==
    IF CanStart(q, r)
    THEN LET item == Shift(q).item
         IN  [sk EXCEPT ![item] = Append(@, StartingMessage(r \cup {idsNow[item]}))]
    ELSE sk

\* The sinks after add(): the new item is given the queued message, and then
\* processQueue is invoked.
SinkAfterAdd(sk, q, r, idsNow) ==
    LET i == Len(sk) + 1
        pushed == Append(q, i)
    IN  SinkAfterProcessQueue(Append(sk, <<QueuedMessage(pushed, r)>>), pushed, r, idsNow)

\* handleGenerate, the completion of an item and the cooldown timer, with the
\* messages add() and processQueue give to onProgress.
GenerateWithProgress ==
    /\ HandleGenerate
    /\ sink' = SinkAfterAdd(sink, queue, running, ids')
    /\ UNCHANGED execVars

TimerFireWithProgress ==
    /\ TimerFire
    /\ sink' = SinkAfterProcessQueue(sink, queue, running, ids)
    /\ UNCHANGED execVars

\* The scheduler with the progress callbacks.
NextProgress ==
    \/ GenerateWithProgress
    \/ \E i \in Items : Finish(i)
    \/ TimerFireWithProgress

SpecProgress == Init /\ [][NextProgress]_vars

\* Bound of the model: how many polls are made before the operation is done, in
\* the runs that are followed through the downloads.
MaxPollsDownload == 1

\* One request whose submission and polls meet no error, its operation done
\* after few polls, with every download followed from await to await.
NextDownload ==
    \/ \E hasImage \in BOOLEAN : XStart(hasImage)
    \/ XImageRead
    \/ \E op \in Operations : XSubmitReturns(op)
    \/ pollAttempts < MaxPollsDownload /\ XPollWake
    \/ \E op \in Operations : XPollReturns(op)
    \/ \E k \in 1..MaxVideos : XFetchReturns(k)
    \/ \E k \in 1..MaxVideos : \E e \in DownloadErrors : XFetchFails(k, e)
    \/ \E k \in 1..MaxVideos : XFetchWake(k)
    \/ \E k \in 1..MaxVideos : XBlobReturns(k)
    \/ \E k \in 1..MaxVideos : \E e \in DownloadErrors : XBlobFails(k, e)

SpecDownload == Init /\ [][NextDownload]_vars

\* The same, with every pending event taken to happen at some time: a timer that
\* was set fires, and a remote call that was made returns or throws.
SpecExecFair == SpecExec /\ WF_vars(NextExec)

----------------------------------------------------------------------------
(* The scheduler's contract *)

Started(i) == exec[i] # "notStarted"

NumExecuting == Cardinality({i \in Items : exec[i] = "executing"})

NoneCompleted == \A i \in Items : handle[i] = "pending"

\* C1: in every reachable state the running set holds at most maxConcurrent ids,
\* and at most maxConcurrent executors are in flight.
C1_RunningWithinLimit ==
    /\ Cardinality(running) <= maxConcurrent
    /\ NumExecuting <= maxConcurrent

\* C2: jobs start in the order of their admission: whenever a job has started,
\* every job admitted before it has started too.
C2_FifoStart ==
    \A a, b \in Items : (a < b /\ Started(b)) => Started(a)

\* Two jobs waited in the queue together, and the earlier of them has been
\* started since while the later one still waits.
C2_Witness ==
    /\ peakPending = 2
    /\ Len(ids) = maxConcurrent + 2
    /\ exec[maxConcurrent + 1] = "executing"
    /\ queue = <<maxConcurrent + 2>>

\* C3: the promise add() returned is settled once, and as the executor ended: it
\* is resolved exactly if execute() has returned, rejected exactly if execute()
\* has thrown (so not before the job has run), and once settled it never changes.
C3_SettledOnce ==
    /\ [](\A i \in Items :
            /\ handle[i] = "resolved" <=> exec[i] = "returned"
            /\ handle[i] = "rejected" <=> exec[i] = "threw")
    /\ [][\A i \in Items : handle[i] # "pending" => handle'[i] = handle[i]]_vars

\* One job was resolved and another rejected.
C3_Witness ==
    \E i, k \in Items : handle[i] = "resolved" /\ handle[k] = "rejected"

\* C4: while no job has completed, N > maxConcurrent admitted jobs leave
\* N - maxConcurrent of them pending and maxConcurrent of them running.
C4_PendingAfterAdmission ==
    (Len(ids) > maxConcurrent /\ NoneCompleted) =>
        /\ Len(queue) = Len(ids) - maxConcurrent
        /\ Cardinality(running) = maxConcurrent

\* C5: as long as at most maxConcurrent jobs have been admitted the pending queue
\* is empty, no add() has left a job in it, and every admitted job has been
\* started; and an add() that finds the queue empty and a slot free starts its
\* job before it returns.
C5_AdmittedWithinLimitStart ==
    /\ [](Len(ids) <= maxConcurrent =>
            /\ queue = <<>>
            /\ peakPending = 0
            /\ \A i \in Items : Started(i))
    /\ [][(Len(ids') = Len(ids) + 1 /\ queue = <<>> /\ Cardinality(running) < maxConcurrent) =>
            /\ queue' = <<>>
            /\ ids'[Len(ids')] \in running'
            /\ exec'[Len(ids')] = "executing"]_vars

\* maxConcurrent jobs were admitted and all of them are running.
C5_Witness ==
    /\ Len(ids) = maxConcurrent
    /\ Cardinality(running) = maxConcurrent
    /\ NumExecuting = maxConcurrent
    /\ queue = <<>>
    /\ peakPending = 0

\* C6: a job the caller removed while it was pending is never started.
C6_RemovedPendingNeverStarts ==
    [][\A i \in Items : (~Started(i) /\ ~Listed(JobIdOf(i))) => ~Started(i)']_vars

\* C7: removing a job leaves the scheduler and the executors as they were (only
\* the host's list shrinks); an executor in flight keeps its slot, and its promise
\* is settled as the executor ends, whether or not the host still lists the job.
C7_RemoveRunningNoEffect ==
    /\ [](\A i \in Items :
            /\ (exec[i] = "executing" /\ ~Listed(JobIdOf(i))) => ids[i] \in running
            /\ exec[i] = "executing" => handle[i] = "pending"
            /\ exec[i] = "returned" => handle[i] = "resolved"
            /\ exec[i] = "threw" => handle[i] = "rejected")
    /\ [][Len(jobs') < Len(jobs) =>
            /\ UNCHANGED schedVars
            /\ \E jobId \in 0..(nextJobId - 1) : Listed(jobId) /\ jobs' = Without(jobs, jobId)]_vars

\* C8: with maxConcurrent + 1 admitted jobs, the last one waiting, a completion
\* does not start the waiting job in its own step; the job is started only by
\* the step in which a cooldown timer fires.
C8_FifthStartsOnTimer ==
    [][LET fifth == maxConcurrent + 1 IN
       (Len(ids) = fifth /\ Len(ids') = fifth /\ ~Started(fifth)) =>
            /\ handle' # handle => ~Started(fifth)'
            /\ Started(fifth)' =>
                    /\ timers # <<>>
                    /\ Head(timers) = CooldownMs
                    /\ timers' = Tail(timers)
                    /\ handle' = handle]_vars

\* Five jobs were admitted, the fifth waited and is running now.
C8_Witness ==
    /\ Len(ids) = maxConcurrent + 1
    /\ peakPending = 1
    /\ exec[maxConcurrent + 1] = "executing"

\* C13: a job that fails takes nothing with it. In the step in which an executor
\* throws, that job's promise is rejected and no other promise changes, the
\* pending queue keeps its items and their order, every other job that runs
\* with its id in the running set keeps its id in the set, no other id leaves
\* the set, and every other executor stays as it was. And whatever has failed
\* before, an add() is admitted and dispatched as ever: the new item goes to the
\* end of the queue, and with a slot free the head of the queue is started.
C13_FailureIsLocal ==
    /\ [][\A i \in Items : (exec[i] = "executing" /\ exec'[i] = "threw") =>
            /\ handle'[i] = "rejected"
            /\ \A k \in Items \ {i} : handle'[k] = handle[k] /\ exec'[k] = exec[k]
            /\ \A k \in Items \ {i} :
                    (exec[k] = "executing" /\ ids[k] \in running) => ids[k] \in running'
            /\ queue' = queue
            /\ running' = running \ {ids[i]}
            /\ ids' = ids]_vars
    /\ [][Len(ids') = Len(ids) + 1 =>
            LET n == Len(ids')
                q == Append(queue, n)
            IN  /\ handle'[n] = "pending"
                /\ IF Cardinality(running) < maxConcurrent
                   THEN /\ queue' = Tail(q)
                        /\ exec'[Head(q)] = "executing"
                        /\ running' = running \cup {ids'[Head(q)]}
                   ELSE queue' = q /\ running' = running]_vars

\* C14: a click on Generate with no API key or no prompt (white space does not
\* count) admits nothing: no job is listed and no number used up, no item is
\* created, the pending queue, the running set and the timers stay as they are,
\* no executor is started, so no remote call is made, and the banner says which
\* field is missing. An item is only ever created by a click with both fields.
C14_MissingFieldNotAdmitted ==
    [][\A apiKey \in ApiKeys : \A prompt \in Prompts :
         Click(apiKey, prompt) =>
            IF Trim(apiKey) = "" \/ Trim(prompt) = ""
            THEN /\ UNCHANGED <<jobs, nextJobId, queue, running, timers, ids, exec, handle>>
                 /\ error' = (IF Trim(apiKey) = "" THEN "enterApiKey" ELSE "enterPrompt")
            ELSE Len(ids') = Len(ids) + 1 /\ error' = "null"]_vars

\* With four jobs running and a fifth waiting, Generate was clicked with an empty
\* prompt: the banner is up and there are still five jobs and five items.
C14_Witness ==
    /\ error = "enterPrompt"
    /\ Len(ids) = maxConcurrent + 1
    /\ Len(jobs) = maxConcurrent + 1
    /\ nextJobId = maxConcurrent + 1
    /\ Cardinality(running) = maxConcurrent
    /\ queue = <<maxConcurrent + 1>>

\* C15: getQueueStatus changes nothing of the scheduler, and what it returns is
\* the state at the call: queueLength the length of the pending queue,
\* runningCount the size of the running set, maxConcurrent the limit of 4. The
\* panel that calls it changes only its own copy.
C15_StatusIsSnapshot ==
    [][status' # status =>
            /\ UNCHANGED <<jobs, nextJobId, error, queue, running, timers, ids, exec, handle>>
            /\ status'.queueLength = Len(queue)
            /\ status'.runningCount = Cardinality(running)
            /\ status'.maxConcurrent = 4]_vars

\* The status was taken while four jobs ran and two waited, none of them done.
C15_Witness ==
    /\ status = [queueLength |-> 2, runningCount |-> 4, maxConcurrent |-> 4]
    /\ Len(queue) = 2
    /\ Cardinality(running) = 4
    /\ NoneCompleted

\* Whether item i is in the pending queue.
InQueue(i) == \E k \in 1..Len(queue) : queue[k] = i

\* The items whose executor is started in this step.
StartedNow == {i \in 1..Len(ids') : exec'[i] = "executing" /\ (i > Len(ids) \/ exec[i] # "executing")}

\* C16: a job only moves forward: from waiting in the queue to running, from
\* running to succeeded or to failed, and from there nowhere. A job is in the
\* pending queue (once) exactly while it has not been started, so a job that
\* runs or has ended is never queued again and a failed job is not run again. An
\* id enters the running set only in the step that starts a job carrying it, and
\* an id in the running set is the id of a job whose executor is in flight: the
\* id of a job that has ended is in the set only as the entry of another job.
C16_PhasesOnlyForward ==
    /\ [](\A i \in Items :
            /\ InQueue(i) <=> exec[i] = "notStarted"
            /\ ids[i] \in running => \E k \in Items : ids[k] = ids[i] /\ exec[k] = "executing"
            /\ exec[i] \in {"notStarted", "executing", "returned", "threw"})
    /\ [](\A k, m \in 1..Len(queue) : queue[k] = queue[m] => k = m)
    /\ [][\A i \in Items : exec'[i] # exec[i] =>
            \/ exec[i] = "notStarted" /\ exec'[i] = "executing"
            \/ exec[i] = "executing" /\ exec'[i] \in {"returned", "threw"}]_vars
    /\ [][\A id \in running' \ running : \E i \in StartedNow : ids'[i] = id]_vars

\* Jobs in all four phases at once: one succeeded, one failed, one that waited
\* is running, one waits.
C16_Witness ==
    /\ Len(ids) = maxConcurrent + 2
    /\ \E i, k \in Items : exec[i] = "returned" /\ exec[k] = "threw"
    /\ exec[maxConcurrent + 1] = "executing"
    /\ peakPending = 2
    /\ queue = <<maxConcurrent + 2>>

\* processQueue is invoked in this step: by add(), or by a cooldown timer.
DispatchInvoked ==
    \/ Len(ids') = Len(ids) + 1
    \/ timers # <<>> /\ timers' = Tail(timers)

\* C17, as claimed: when an invocation of processQueue has returned, the running
\* set is full or the pending queue is empty.
C17_DispatchDrains ==
    [][DispatchInvoked => (Cardinality(running') = maxConcurrent \/ queue' = <<>>)]_vars

\* C17, amended: one invocation of processQueue starts at most one job. With a
\* slot free and a job pending it starts the head of the queue and no other;
\* otherwise it starts none. So when it has returned, the running set is full,
\* or the queue is empty, or exactly one job was started and the rest of the
\* queue waits for a later invocation.
C17_DispatchStartsOne ==
    [][DispatchInvoked =>
         LET q == IF Len(ids') = Len(ids) + 1 THEN Append(queue, Len(ids')) ELSE queue
         IN  /\ Cardinality(StartedNow) <= 1
             /\ IF Cardinality(running) < maxConcurrent /\ q # <<>>
                THEN /\ StartedNow = {Head(q)}
                     /\ queue' = Tail(q)
                     /\ running' = running \cup {ids'[Head(q)]}
                ELSE /\ StartedNow = {}
                     /\ queue' = q
                     /\ running' = running
             /\ \/ Cardinality(running') = maxConcurrent
                \/ queue' = <<>>
                \/ Cardinality(StartedNow) = 1]_vars

\* Two jobs waited and two slots were freed; a timer has fired and started the
\* first of the two only: a slot is free, the other job waits, and the second
\* timer is still to fire.
C17_Witness ==
    /\ Len(ids) = maxConcurrent + 2
    /\ peakPending = 2
    /\ Cardinality({i \in Items : handle[i] # "pending"}) = 2
    /\ exec[maxConcurrent + 1] = "executing"
    /\ queue = <<maxConcurrent + 2>>
    /\ Cardinality(running) = maxConcurrent - 1
    /\ timers = <<CooldownMs>>

\* C19: a job that waits in the pending queue is started only by a cooldown
\* timer that fires, so not before the cooldown of the slot it takes has run
\* out; in particular not by an add() made while a timer is still to fire.
C19_PendingStartsOnlyOnTimer ==
    [][\A i \in Items : (exec[i] = "notStarted" /\ exec'[i] = "executing") =>
            (timers # <<>> /\ timers' = Tail(timers))]_vars

\* C20: whenever a job is pending, there are at least as many cooldown timers
\* still to fire as there are free slots.
C20_FreeSlotsHaveTimers ==
    queue # <<>> => maxConcurrent - Cardinality(running) <= Len(timers)

\* C21: with every timer firing and every started executor ending, each job
\* that add() admitted is started at some time and its promise is settled at
\* some time, however many jobs are admitted and whichever of them succeed or
\* fail.
C21_AdmittedJobsSettle ==
    \A i \in 1..MaxJobs :
        /\ [](Len(ids) >= i => <>(Len(ids) >= i /\ Started(i)))
        /\ [](Len(ids) >= i => <>(Len(ids) >= i /\ handle[i] # "pending"))

\* Six jobs were admitted, two of them waited together, and all six are
\* settled, some resolved and some rejected.
C21_Witness ==
    /\ Len(ids) = maxConcurrent + 2
    /\ peakPending = 2
    /\ \A i \in Items : handle[i] # "pending"
    /\ handle[maxConcurrent + 1] = "rejected"
    /\ handle[maxConcurrent + 2] = "resolved"

\* The promise add() returned for item i is settled in this step.
Settles(i) == handle[i] = "pending" /\ handle'[i] # "pending"

\* C28: the step in which the promise of a job is settled, resolved or rejected,
\* is the completion of a job whose executor was in flight; it takes the job's
\* id, and nothing else, out of the running set, so that the id is not in the
\* set when the step has ended, and schedules exactly one processQueue after the
\* cooldown without starting anything itself. The id of a settled job is in the
\* running set later only as the entry of another job that is in flight.
C28_CompletionFreesSlot ==
    /\ [][\A i \in 1..Len(ids) :
            Settles(i) =>
                /\ exec[i] = "executing"
                /\ running' = running \ {ids[i]}
                /\ ids[i] \notin running'
                /\ timers' = Append(timers, CooldownMs)
                /\ queue' = queue
                /\ NumExecuting' = NumExecuting - 1]_vars
    /\ [](\A i \in Items : (handle[i] # "pending" /\ ids[i] \in running) =>
            \E k \in Items \ {i} : ids[k] = ids[i] /\ exec[k] = "executing")

\* Of four jobs the first has failed and the second succeeded: two ids are left
\* in the running set and two cooldown timers are pending.
C28_Witness ==
    /\ Len(ids) = 4
    /\ handle = <<"rejected", "resolved", "pending", "pending">>
    /\ running = {ids[3], ids[4]}
    /\ timers = <<CooldownMs, CooldownMs>>

\* The admitted items whose promise is not settled.
Unsettled == {i \in Items : handle[i] = "pending"}

\* C31: an admitted job whose promise is not settled is in the pending queue or
\* its id is in the running set, and not both; a job whose promise is settled is
\* in neither. The queue holds no item twice, so the length of the queue and the
\* size of the running set add up to the number of unsettled jobs.
C31_PendingXorRunning ==
    /\ \A i \in Unsettled : InQueue(i) # (ids[i] \in running)
    /\ \A i \in Items \ Unsettled : ~InQueue(i) /\ ids[i] \notin running
    /\ \A k, n \in 1..Len(queue) : queue[k] = queue[n] => k = n
    /\ \A k \in 1..Len(queue) : queue[k] \in Items
    /\ running \subseteq {ids[i] : i \in Items}
    /\ Len(queue) + Cardinality(running) = Cardinality(Unsettled)

\* C33: no two admitted jobs carry the same id, so the running set has one entry
\* for every executor in flight.
C33_IdsUnique ==
    /\ \A i, k \in Items : i # k => ids[i] # ids[k]
    /\ Cardinality(running) = NumExecuting

\* The entries of the host's list js, as a set.
Entries(js) == {js[k] : k \in 1..Len(js)}

\* C34: a job the host has removed from its list is never listed again: every
\* entry the list holds after a step that was not in it before is the entry of
\* the job the step has created (loading, with an id no job had before), or takes
\* the place of the loading entry of the same id in the step that settles that
\* job's promise, with success on a resolved and error on a rejected promise. So
\* the status of a listed job changes at most once, from loading, and never
\* back. The step that settles the promise of a job that is not listed leaves
\* the list as it is. No two listed jobs have the same id, and every listed id is
\* below nextJobId.
C34_RemovedJobStaysRemoved ==
    /\ [][jobs' # jobs =>
            /\ \A j \in Entries(jobs') \ Entries(jobs) :
                \/ j.id = nextJobId /\ nextJobId' = nextJobId + 1 /\ j.status = "loading"
                \/ /\ [id |-> j.id, status |-> "loading"] \in Entries(jobs)
                   /\ j.status \in {"success", "error"}
                   /\ Settles(j.id + 1)
                   /\ j.status = HostStatus(handle'[j.id + 1])
            /\ \A i \in Items : Settles(i) => Listed(JobIdOf(i))]_vars
    /\ [](Cardinality({j.id : j \in Entries(jobs)}) = Len(jobs))
    /\ [](\A j \in Entries(jobs) : j.id < nextJobId)

\* The first of two jobs is no longer listed and its promise has been rejected;
\* the second is listed with its success.
C34_Witness ==
    /\ Len(ids) = 2
    /\ ~Listed(0)
    /\ handle[1] = "rejected"
    /\ jobs = <<[id |-> 1, status |-> "success"]>>

\* A cooldown timer fires in this step.
TimerFires == timers # <<>> /\ timers' = Tail(timers)

\* processQueue, invoked on the state as it is, has nothing to do.
NothingToDo == Cardinality(running) >= maxConcurrent \/ Len(queue) = 0

\* C29: a cooldown timer that fires while the running set is full or the pending
\* queue is empty changes nothing but the timers: the queue, the running set,
\* the executors and the promises stay as they are and no sink is given a
\* message. An add() made while the running set is full pushes its item, gives
\* that item the queued message, and its processQueue does nothing more: the
\* running set and the other sinks stay as they are and nothing is started.
C29_IdleDispatchChangesNothing ==
    /\ [][(TimerFires /\ NothingToDo) =>
            /\ queue' = queue /\ running' = running
            /\ exec' = exec /\ handle' = handle
            /\ StartedNow = {}
            /\ sink' = sink]_vars
    /\ [][(Len(ids') = Len(ids) + 1 /\ Cardinality(running) = maxConcurrent) =>
            /\ queue' = Append(queue, Len(ids'))
            /\ running' = running
            /\ StartedNow = {}
            /\ Len(sink'[Len(ids')]) = 1 /\ sink'[Len(ids')][1].kind = "queued"
            /\ \A i \in Items : sink'[i] = sink[i]]_vars

\* The first of five jobs has completed, and the fifth was added after that and
\* started by its own add() (its queued message reports three slots in use);
\* the cooldown timer of the first has since fired and found nothing to do.
C29_Witness ==
    /\ Len(ids) = maxConcurrent + 1
    /\ handle[1] # "pending"
    /\ sink[maxConcurrent + 1] = <<QueuedMessage(<<maxConcurrent + 1>>, {2, 3, 4}),
                                   StartingMessage({2, 3, 4, 5})>>
    /\ Cardinality(running) = maxConcurrent
    /\ queue = <<>>
    /\ timers = <<>>

\* C30: every item has a first message from the moment add() has returned, and
\* it stays the first: the queued message, whose position is the length of the
\* pending queue with the item in it (so at least 1) and whose slot count is the
\* size of the running set, both as add() found them. The starting message of an
\* item is its second message and is there exactly when the item was started;
\* its slot count is the size of the running set with the item in it, between 1
\* and maxConcurrent.
C30_QueuedThenStarting ==
    /\ [](Len(sink) = Len(ids))
    /\ [][Len(ids') = Len(ids) + 1 =>
            sink'[Len(ids')][1] = [kind |-> "queued", position |-> Len(queue) + 1,
                                   slots |-> Cardinality(running), of |-> 4]]_vars
    /\ [][\A i \in Items : sink'[i][1] = sink[i][1]]_vars
    /\ [](\A i \in Items :
            /\ sink[i][1].kind = "queued"
            /\ sink[i][1].position >= 1
            /\ sink[i][1].slots \in 0..maxConcurrent
            /\ Len(sink[i]) = (IF Started(i) THEN 2 ELSE 1)
            /\ Started(i) => /\ sink[i][2].kind = "starting"
                              /\ sink[i][2].slots \in 1..maxConcurrent
                              /\ sink[i][2].of = 4)
    /\ [][\A i \in StartedNow :
            sink'[i][Len(sink'[i])] = [kind |-> "starting", position |-> 0,
                                       slots |-> Cardinality(running'), of |-> 4]]_vars

\* The sixth job was added second in line behind a full running set, and was
\* started later, when two of the four slots were in use.
C30_Witness ==
    /\ Len(ids) = maxConcurrent + 2
    /\ sink[maxConcurrent + 2][1].position = 2
    /\ sink[maxConcurrent + 2][1].slots = maxConcurrent
    /\ Len(sink[maxConcurrent + 2]) = 2
    /\ sink[maxConcurrent + 2][2].slots = 3

----------------------------------------------------------------------------
(* The retrier at the submission *)

\* A generateVideos call has just failed with a non-retryable status.
SubmitFailedForGood ==
    /\ xpc = "submit"
    /\ submitFailures' = submitFailures + 1
    /\ lastError'.status \in {400, 401, 403}

\* C9: a generateVideos call that fails with status 400, 401 or 403 is the last
\* one: no wait and no further call follows, no poll is made, and in the same
\* step the job fails with the executor's message for that error (the API-key
\* message for 401, the access message for 403, the error's own text for 400,
\* which the executor replaces by its timed-out text when it contains 'timeout')
\* and its promise is rejected. When the call was the first, it stays the only one.
C9_NonRetryableSubmitOnce ==
    [][SubmitFailedForGood =>
            /\ xpc' = "failed"
            /\ exec'[1] = "threw" /\ handle'[1] = "rejected"
            /\ submitCalls' = submitCalls
            /\ submitWaits' = submitWaits
            /\ ~pollCalls'
            /\ attempt = 0 => (submitCalls' = 1 /\ submitWaits' = <<>>)
            /\ xresult' = CASE lastError'.status = 401 -> "invalidApiKey"
                            [] lastError'.status = 403 -> "accessDenied"
                            [] OTHER -> IF lastError'.text = "msg timeout" THEN "requestTimedOut"
                                        ELSE IF lastError'.text = "" THEN "failedToGenerate"
                                        ELSE lastError'.text]_vars

\* The first generateVideos call failed with 403 and the job failed after that
\* single call.
C9_Witness ==
    /\ xpc = "failed"
    /\ lastError.status = 403
    /\ submitCalls = 1 /\ submitFailures = 1
    /\ submitWaits = <<>>
    /\ handle[1] = "rejected"
    /\ xresult = "accessDenied"

\* generateVideos has returned an operation.
Submitted == operation.name # ""

\* C10: once generateVideos has succeeded after k failed calls, k + 1 calls were
\* made and k waits were slept, the i-th of them (from 0) of
\* 5000 * 1.5^i ms, each longer than the one before; k is at most 8.
C10_SubmitBackoffGrows ==
    Submitted =>
        /\ submitCalls = submitFailures + 1
        /\ Len(submitWaits) = submitFailures
        /\ submitFailures <= 8
        /\ \A n \in 1..Len(submitWaits) :
               submitWaits[n][1] * Pow(2, n - 1) = 5000 * Pow(3, n - 1) * submitWaits[n][2]
        /\ \A n \in 2..Len(submitWaits) :
               submitWaits[n - 1][1] * submitWaits[n][2] < submitWaits[n][1] * submitWaits[n - 1][2]

\* generateVideos succeeded at the ninth call, after eight transient failures.
C10_Witness ==
    /\ Submitted
    /\ submitFailures = 8
    /\ submitCalls = 9
    /\ Len(submitWaits) = 8

\* A generateVideos call has just failed with a retryable error.
SubmitFailedRetryable ==
    /\ xpc = "submit"
    /\ submitFailures' = submitFailures + 1
    /\ lastError'.status \notin {400, 401, 403}

\* C27: the retrier of the submission, called with maxRetries = 8, permits
\* 8 + 1 = 9 attempts (its own message counts them 'attempt n/9'). While
\* generateVideos keeps failing with retryable errors it is called again after
\* each of the first 8 failures; the 9th failure is thrown on as it is, so that
\* the job fails in that step with the executor's message for the error of that
\* 9th call, after exactly 9 calls and 8 waits and before any poll. There is
\* never a 10th call.
C27_RetrierCallsUpToLimit ==
    /\ [][SubmitFailedRetryable =>
            IF attempt < 8
            THEN /\ xpc' = "submitWait"
                 /\ submitCalls = attempt + 1
            ELSE /\ xpc' = "failed"
                 /\ submitCalls' = 9 /\ submitFailures' = 9
                 /\ Len(submitWaits') = 8
                 /\ xresult' = MapError(lastError')
                 /\ handle'[1] = "rejected"
                 /\ ~pollCalls']_vars
    /\ [][xpc = "submitWait" => (xpc' = "submit" /\ submitCalls' = submitCalls + 1)]_vars
    /\ [](submitCalls <= 9 /\ attempt <= 8)

\* generateVideos failed nine times, the ninth time with a 500 whose text the
\* executor hands on: the job has failed with that text.
C27_Witness ==
    /\ xpc = "failed"
    /\ submitCalls = 9 /\ submitFailures = 9
    /\ Len(submitWaits) = 8
    /\ lastError.status = 500 /\ lastError.text = "msg"
    /\ xresult = "msg"
    /\ handle[1] = "rejected"

----------------------------------------------------------------------------
(* The polling loop *)

\* new Error("... timed out after 25 minutes ...") as execute() throws it.
TimeoutMessage == "generation timed out after 25 minutes"

\* An iteration of the polling loop ends here without throwing: the poll has
\* returned, or the sleep after a 503 has ended.
IterationEnds ==
    \/ xpc = "poll" /\ ~lastError'.thrown
    \/ xpc = "pollBackoff" /\ xpc' # "pollBackoff"

\* C11: the polling loop makes at most 100 iterations; an iteration is counted
\* once, when its sleep ends and before its poll is made, so however the poll
\* ends. When the 100th iteration ends with the operation not done, the job
\* fails at once with the timed-out message, which is not the
\* service-unavailable one, also when the polls failed with 503; its promise is
\* rejected. As long as every call made returns or throws and every timer fires,
\* a job whose operation is never reported done fails at some time.
C11_PollCapTimeout ==
    /\ [](pollAttempts <= 100)
    /\ [][pollAttempts' # pollAttempts =>
            (xpc = "pollSleep" /\ xpc' = "poll" /\ pollAttempts' = pollAttempts + 1)]_vars
    /\ [][(IterationEnds /\ pollAttempts = 100 /\ ~operation'.done) =>
            /\ xpc' = "failed"
            /\ xresult' = TimeoutMessage
            /\ xresult' # "unavailable"
            /\ exec'[1] = "threw" /\ handle'[1] = "rejected"]_vars
    /\ <>(xpc = "failed" \/ operation.done)

\* The 100th iteration ended in a 503 and the job has failed with the timed-out
\* message.
C11_Witness ==
    /\ xpc = "failed"
    /\ pollAttempts = 100
    /\ ~operation.done
    /\ lastError.status = 503
    /\ xresult = TimeoutMessage
    /\ handle[1] = "rejected"

\* C18: whenever a poll, the first or the 100th or any between, returns the
\* operation done with videos, the downloads are started and the job does not
\* fail as timed out.
C18_DoneWithinCapDownloads ==
    [][(/\ xpc = "poll"
        /\ ~lastError'.thrown
        /\ pollAttempts \in 1..100
        /\ operation'.done
        /\ Len(operation'.videos) > 0)
       => (downloads' = StartDownloads(operation'.videos) /\ xresult' # TimeoutMessage)]_vars

\* new Error("... Video generation failed or returned no videos.") as execute()
\* throws it.
EmptyResultMessage == "generation failed or returned no videos"

\* generateVideos or getVideosOperation has just returned (not thrown).
CallReturns == xpc \in {"submit", "poll"} /\ ~lastError'.thrown

\* C23: when generateVideos or a poll before the 100th returns the operation
\* done without videos, the job fails in that step with the no-videos message,
\* which is not the timed-out one, its promise is rejected, and no download is
\* started, then or later.
C23_EmptyResultFails ==
    /\ [][(CallReturns /\ pollAttempts < 100 /\ operation'.done /\ Len(operation'.videos) = 0) =>
            /\ xpc' = "failed"
            /\ xresult' = EmptyResultMessage
            /\ xresult' # TimeoutMessage
            /\ downloads' = <<>>
            /\ exec'[1] = "threw" /\ handle'[1] = "rejected"]_vars
    /\ [](xresult = EmptyResultMessage => (downloads = <<>> /\ xpc = "failed"))

\* The third poll returned the operation done without videos and the job has
\* failed with the no-videos message.
C23_Witness ==
    /\ xpc = "failed"
    /\ xresult = EmptyResultMessage
    /\ operation.done /\ operation.videos = <<>>
    /\ pollAttempts = 3
    /\ downloads = <<>>
    /\ handle[1] = "rejected"

\* error.status === 503 || error.code === 503
Is503(e) == e.thrown /\ (e.status = 503 \/ e.code = 503)

\* C24: a poll that fails with a 503 does not fail the job: the call is tried
\* again or the loop sleeps; after that sleep, with fewer than 100 polls made,
\* the loop goes on to its next iteration; and a poll within the 100 that
\* returns the operation done with videos after 503 failures starts the
\* downloads, the job not failing as timed out.
C24_TransientPollErrorRecovers ==
    /\ [][(xpc = "poll" /\ Is503(lastError')) => xpc' \in {"pollWait", "pollBackoff"}]_vars
    /\ [][(xpc = "pollBackoff" /\ xpc' # "pollBackoff" /\ pollAttempts < 100) =>
            xpc' = "pollSleep"]_vars
    /\ [][(/\ xpc = "poll"
           /\ Is503(lastError)
           /\ ~lastError'.thrown
           /\ pollAttempts \in 1..100
           /\ operation'.done
           /\ Len(operation'.videos) > 0)
          => (downloads' = StartDownloads(operation'.videos) /\ xresult' # TimeoutMessage)]_vars

\* A getVideosOperation call has just failed with an error that is not a 503.
PollFailsNot503 ==
    /\ xpc = "poll"
    /\ lastError'.thrown
    /\ lastError'.status # 503 /\ lastError'.code # 503

\* C25, as claimed: a poll that fails with an error that is not a 503 fails the
\* job in that step.
C25_NonTransientPollFailsAtOnce ==
    [][PollFailsNot503 => xpc' = "failed"]_vars

\* C25, amended: a poll that fails with status 400, 401 or 403 fails the job in
\* that step. A poll that fails with another error that is not a 503 is called
\* again after a wait, in the same iteration, up to five times; when the sixth
\* call of the iteration fails so, the job fails in that step. A failed job's
\* promise is rejected, and it makes no call and starts no download afterwards.
C25_NonTransientPollFails ==
    /\ [][PollFailsNot503 =>
            IF lastError'.status \in {400, 401, 403} \/ attempt = 5
            THEN /\ xpc' = "failed"
                 /\ exec'[1] = "threw" /\ handle'[1] = "rejected"
                 /\ downloads' = <<>>
            ELSE /\ xpc' = "pollWait"
                 /\ attempt < 5
                 /\ pollAttempts' = pollAttempts]_vars
    /\ [][xpc = "pollWait" => (xpc' = "poll" /\ attempt' = attempt + 1 /\ pollAttempts' = pollAttempts)]_vars
    /\ [][xpc = "failed" => (xpc' = "failed" /\ downloads' = downloads)]_vars

\* The second poll failed six times with status 500 and the job has failed; and
\* no download was started.
C25_Witness ==
    /\ xpc = "failed"
    /\ pollAttempts = 2
    /\ attempt = 5
    /\ lastError.thrown /\ lastError.status = 500
    /\ xresult = "msg"
    /\ handle[1] = "rejected"
    /\ downloads = <<>>

\* onProgress(progressMessages[messageIndex++]): the stage message given to
\* onProgress in this step, by its place in progressMessages (1 the first), and 0
\* when the step gives none. messageIndex changes nowhere else.
StageMessageSent == IF messageIndex' = messageIndex + 1 THEN messageIndex' ELSE 0

\* A new iteration of the polling loop begins.
IterationBegins == pollAttempts' = pollAttempts + 1

\* C26, as claimed: every poll iteration gives onProgress a stage message, the
\* next of the list while there is one and the last of the list after that.
C26_EveryIterationSendsStage ==
    [][IterationBegins => StageMessageSent = (IF messageIndex < 5 THEN messageIndex + 1 ELSE 5)]_vars

\* C26, amended: the first stage message is sent when the submission returns.
\* Every poll iteration, before its call of getVideosOperation and whatever that
\* call will do, sends the next stage message while the list has one left, so
\* iterations 1 to 4 send messages 2 to 5; from iteration 5 on an iteration sends
\* no stage message. No other step sends a stage message.
C26_StageMessagesUntilExhausted ==
    /\ [][IterationBegins =>
            /\ xpc' = "poll"
            /\ StageMessageSent = (IF messageIndex < 5 THEN messageIndex + 1 ELSE 0)
            /\ StageMessageSent = (IF pollAttempts' <= 4 THEN pollAttempts' + 1 ELSE 0)]_vars
    /\ [][StageMessageSent # 0 =>
            \/ IterationBegins
            \/ xpc = "submit" /\ ~lastError'.thrown /\ StageMessageSent = 1]_vars
    /\ [](messageIndex \in 0..5)

\* The sixth iteration has begun, after the fifth message was sent in the
\* fourth.
C26_Witness ==
    /\ xpc = "poll"
    /\ pollAttempts = 6
    /\ messageIndex = 5
    /\ attempt = 0

\* The operation is done and its response lists at least one video.
DoneWithVideos == operation.done /\ Len(operation.videos) > 0

\* generateVideos has failed for good: executeGeneration has thrown without an
\* operation.
SubmitGaveUp == xpc = "failed" /\ ~Submitted

\* C32: the remote calls of a job come in the order of its phases.
\* getVideosOperation is called, and the wait before a poll is entered, only
\* after generateVideos has returned an operation. The downloads are started
\* only in a step in which generateVideos or getVideosOperation has returned an
\* operation that is done and lists a video, and at no time are there downloads
\* without such an operation. Once generateVideos has failed for good, no poll
\* has been made, none follows, and no download is ever started.
C32_CallsOrderedByPhase ==
    /\ [](pollCalls => Submitted)
    /\ [](xpc \in {"pollSleep", "poll", "pollWait", "pollBackoff"} => (Submitted /\ downloads = <<>>))
    /\ [][xpc' = "poll" => (Submitted /\ Submitted')]_vars
    /\ [](downloads # <<>> => (Submitted /\ DoneWithVideos))
    /\ [](xpc \in {"download", "done"} => (Submitted /\ DoneWithVideos))
    /\ [][(downloads = <<>> /\ downloads' # <<>>) =>
            /\ xpc \in {"submit", "poll"}
            /\ ~lastError'.thrown
            /\ DoneWithVideos'
            /\ downloads' = StartDownloads(operation'.videos)]_vars
    /\ [](SubmitGaveUp => (~pollCalls /\ pollAttempts = 0 /\ downloads = <<>>))
    /\ [][SubmitGaveUp => UNCHANGED <<xpc, operation, pollCalls, pollAttempts, downloads>>]_vars

\* The second generateVideos call succeeded, the second poll found the operation
\* done with two videos, and both fetches have been called.
C32_Witness ==
    /\ xpc = "download"
    /\ submitCalls = 2 /\ submitFailures = 1
    /\ pollCalls /\ pollAttempts = 2
    /\ operation.done /\ operation.videos = <<"uri", "uri">>
    /\ Len(downloads) = 2
    /\ \A k \in 1..2 : downloads[k].state = "fetch"

----------------------------------------------------------------------------
(* The downloads *)

\* C12: when the fetch of one video gives up after its last retry while the
\* download of another video has succeeded, the job is not failed by it: it
\* stays in its download phase or succeeds with the videos that were fetched.
C12_FailedFetchDropped ==
    [][\A k \in 1..Len(downloads) :
         (/\ xpc = "download"
          /\ downloads[k].state = "fetch"
          /\ downloads'[k].state = "threw"
          /\ \E j \in 1..Len(downloads) : j # k /\ downloads[j].state = "url")
         => (xpc' \in {"download", "done"} /\ handle'[1] # "rejected")]_vars

\* new Error("... All video downloads failed ...") as execute() throws it.
AllDownloadsFailedMessage == "all video downloads failed"

\* C22: when the fetch of every video has given up after its last retry, the job
\* fails with the all-downloads-failed message, not with the error of a fetch.
C22_AllFetchesFailAggregate ==
    [][\A k \in 1..Len(downloads) :
         (/\ xpc = "download"
          /\ downloads[k].state = "fetch"
          /\ downloads'[k].state = "threw"
          /\ \A j \in 1..Len(downloads) : downloads'[j].state = "threw")
         => (xpc' = "failed" /\ xresult' = AllDownloadsFailedMessage)]_vars

====
